---- MODULE Spec2Model ----
(***************************************************************************)
(* Cache-aside user repository of bqredis-crud: RedisRepository (the cache *)
(* layer) in front of BigQueryRepository (the primary store), with the     *)
(* error translation of UserUseCase on top.                                *)
(*                                                                         *)
(* Calls are issued on the cache-aside repository by concurrent request    *)
(* handlers; every cache call and every store call is one step, so calls   *)
(* interleave at exactly the points where the Go code blocks on I/O.       *)
(***************************************************************************)
EXTENDS Integers, Sequences, FiniteSets, TLC

(***************************************************************************)
(* Bounds of the model.                                                    *)
(***************************************************************************)
\* calls issued in one behaviour
MaxCalls == 2

\* concurrent request handlers
Procs == {"p1", "p2"}
\* identifiers callers read, update and delete; "" is the empty identifier
IDs == {"", "u1"}
\* identifiers callers create users with: unset (""), or supplied
NewIDs == {"", "u1"}
\* payloads (name/email) callers pass
Names == {"a", "b"}
\* the payload records are created with
NewName == "a"

\* the greatest page and page size callers pass to the shared helpers
MaxPage == 2

\* on the time line, in seconds: the greatest deadline a caller sets, and the
\* greatest time the cache and the store take to answer
MaxDeadline == 6

MaxCacheDelay == 4

MaxStoreDelay == 2

\* the largest number in a REDIS_TTL_MINUTES value
MaxTTLInput == 1

(***************************************************************************)
(* Errors.  A Go error is modelled by its Unwrap chain: the sequence of    *)
(* the messages/sentinels from the outermost wrapper to the innermost      *)
(* error.  nil is the empty chain.                                         *)
(***************************************************************************)
NoErr == << >>

ErrNotFound == "not found"

ErrUserNotFound == "user not found"

ErrValidation == "validation error"

\* redis.Nil is mapped by cacheGet to a plain error
ErrCacheMiss == "cache miss for key"

ErrRedis == "redis backend error"

ErrJSON == "json: cannot unmarshal"

ErrCtx == "context done"

ErrBigQuery == "bigquery error"

\* fmt.Errorf("msg: %w", err): the chain of err is kept under the new message
Wrapf(msg, err) == <<msg>> \o err

\* errors.Is(err, target)
ErrorsIs(err, target) == \E i \in 1..Len(err) : err[i] = target

(***************************************************************************)
(* entity.User and repository.PaginationParams.                            *)
(***************************************************************************)
\* entity.User{}: the zero value
ZeroUser == [ID |-> "", Name |-> "", CreatedAt |-> 0]

NewUser(id, name, at) == [ID |-> id, Name |-> name, CreatedAt |-> at]

\* the result pair (value, error) of a repository call; the value is a
\* sequence of users: one user for GetByID, a page for GetAll
Result(val, err) == [val |-> val, err |-> err]

NoResult == Result(<< >>, NoErr)

(***************************************************************************)
(* BaseRepositoryImpl: the shared helpers.                                 *)
(***************************************************************************)
\* a normalisation that raises every page size below the default to it
ValidatePaginationMin10(params) ==
    [Page     |-> IF params.Page < 1 THEN 1 ELSE params.Page,
     PageSize |-> IF params.PageSize < 10 THEN 10 ELSE params.PageSize]

ValidatePagination(params) ==
    [Page     |-> IF params.Page < 1 THEN 1 ELSE params.Page,
     PageSize |-> IF params.PageSize < 1 THEN 10 ELSE params.PageSize]

\* an offset that counts pages from zero
CalculateOffsetFromZero(params) == params.Page * params.PageSize

CalculateOffset(params) == (params.Page - 1) * params.PageSize

ValidateID(id) == IF id = "" THEN <<ErrNotFound>> ELSE NoErr

(***************************************************************************)
(* Cache keys.                                                             *)
(***************************************************************************)
userKeyPrefix == "users:"

userListKeyPrefix == "users:list:"

\* fmt.Sprintf("page_%d:size_%d", page, size)
pageKeyFormat(page, size) == "page_" \o ToString(page) \o ":size_" \o ToString(size)

generateKey(id) == userKeyPrefix \o id

generateListKey(params) ==
    userListKeyPrefix \o pageKeyFormat(params.Page, params.PageSize)

\* the key argument of the second DEL of invalidateCache
listPattern == userListKeyPrefix \o "*"

\* the paginations callers pass: unset (0, 0), and the second page of size 1
PaginationInputs == { [Page |-> 0, PageSize |-> 0], [Page |-> 2, PageSize |-> 1] }

\* every list key a GetAll of this model can derive
ListKeys == { generateListKey(ValidatePagination(p)) : p \in PaginationInputs }

(***************************************************************************)
(* Serialisation of cache entries (encoding/json).  A cached payload is    *)
(* its JSON kind and the users it holds.                                   *)
(***************************************************************************)
\* an encoding that drops the name (a field without its json tag)
MarshalUserNoName(u) == [kind |-> "object", val |-> <<[u EXCEPT !.Name = ""]>>]

\* json.Marshal(entity.User)
MarshalUser(u) == [kind |-> "object", val |-> <<u>>]

\* json.Marshal([]entity.User): a nil slice is encoded as null
MarshalList(us) ==
    IF us = << >> THEN [kind |-> "null", val |-> << >>]
                  ELSE [kind |-> "array", val |-> us]

\* a payload that is not valid JSON for either target
Garbage == [kind |-> "garbage", val |-> << >>]

\* what a failed json.Unmarshal may leave in its target: the fields decoded
\* before the error
PartialUser == [ID |-> "?", Name |-> "?", CreatedAt |-> 0]

\* json.Unmarshal(data, &user) with user the zero value: null is a no-op
UnmarshalUser(e) ==
    CASE e.kind = "object" -> Result(e.val, NoErr)
      [] e.kind = "null"   -> Result(<<ZeroUser>>, NoErr)
      [] OTHER             -> Result(<<PartialUser>>, <<ErrJSON>>)

\* json.Unmarshal(data, &users) with users nil
UnmarshalList(e) ==
    CASE e.kind = "array" -> Result(e.val, NoErr)
      [] e.kind = "null"  -> Result(<< >>, NoErr)
      [] OTHER            -> Result(<<PartialUser>>, <<ErrJSON>>)

(***************************************************************************)
(* The Redis commands the repository issues, on a key/value map.           *)
(***************************************************************************)
\* GET key: the payload, or redis.Nil
RedisHas(c, k) == k \in DOMAIN c

\* SET key value EX ttl
RedisSet(c, k, v) == [x \in DOMAIN c \cup {k} |-> IF x = k THEN v ELSE c[x]]

\* DEL key: removes the key of exactly that name (DEL takes no pattern)
RedisDel(c, k) == [x \in DOMAIN c \ {k} |-> c[x]]

(***************************************************************************)
(* BigQueryRepository: the primary store, on the rows of the users table.  *)
(***************************************************************************)
\* the index of a row with the greatest created_at
MaxAt(rows) ==
    CHOOSE i \in 1..Len(rows) :
        \A j \in 1..Len(rows) :
            \/ rows[j].CreatedAt < rows[i].CreatedAt
            \/ rows[j].CreatedAt = rows[i].CreatedAt /\ i <= j

RemoveAt(rows, i) == SubSeq(rows, 1, i - 1) \o SubSeq(rows, i + 1, Len(rows))

\* ORDER BY created_at DESC
RECURSIVE OrderByCreatedAtDesc(_)
OrderByCreatedAtDesc(rows) ==
    IF rows = << >> THEN << >>
    ELSE LET i == MaxAt(rows)
         IN  <<rows[i]>> \o OrderByCreatedAtDesc(RemoveAt(rows, i))

\* LIMIT @pageSize OFFSET @offset
LimitOffset(rows, limit, offset) ==
    LET hi == IF offset + limit < Len(rows) THEN offset + limit ELSE Len(rows)
    IN  IF offset >= Len(rows) THEN << >> ELSE SubSeq(rows, offset + 1, hi)

\* BigQueryRepository.GetAll when the query succeeds
bqGetAll(rows, params) ==
    LET p == ValidatePagination(params)
    IN  Result(LimitOffset(OrderByCreatedAtDesc(rows), p.PageSize, CalculateOffset(p)),
               NoErr)

\* WHERE id = @id
WhereID(rows, id) == SelectSeq(rows, LAMBDA r : r.ID = id)

\* BigQueryRepository.GetByID when the query succeeds: users[0] of the rows
\* that match, in the order the warehouse returns them (the query has no
\* ORDER BY, so any matching row may come first)
bqGetByID(rows, id) ==
    IF ValidateID(id) # NoErr THEN { Result(<<ZeroUser>>, ValidateID(id)) }
    ELSE IF WhereID(rows, id) = << >>
         THEN { Result(<<ZeroUser>>, Wrapf("user", <<ErrNotFound>>)) }
         ELSE { Result(<<WhereID(rows, id)[i]>>, NoErr) :
                    i \in 1..Len(WhereID(rows, id)) }

\* inserter.Put: the row is appended, whatever its id
bqCreate(rows, user) == Append(rows, user)

\* an UPDATE that writes every column of the user passed in
bqUpdateReplace(rows, user) ==
    [i \in 1..Len(rows) |-> IF rows[i].ID = user.ID THEN user ELSE rows[i]]

\* UPDATE ... SET name, email, updated_at WHERE id = @id
bqUpdate(rows, user) ==
    [i \in 1..Len(rows) |->
        IF rows[i].ID = user.ID THEN [rows[i] EXCEPT !.Name = user.Name]
                                ELSE rows[i]]

\* DELETE FROM ... WHERE id = @id
bqDelete(rows, id) == SelectSeq(rows, LAMBDA r : r.ID # id)

\* a query that fails (query.Read or query.Run returns an error), also what
\* a query under a done context returns
bqFailure(ctxDone) ==
    IF ctxDone THEN Wrapf("failed to execute query", <<ErrCtx>>)
               ELSE Wrapf("failed to execute query", <<ErrBigQuery>>)

\* inserter.Put that fails
putFailure(ctxDone) ==
    IF ctxDone THEN Wrapf("failed to insert user", <<ErrCtx>>)
               ELSE Wrapf("failed to insert user", <<ErrBigQuery>>)

\* the bound of every cache call, in seconds
defaultTimeout == 3

(***************************************************************************)
(* config.LoadConfig: the lifetime of cache entries.  A value of the       *)
(* environment variable REDIS_TTL_MINUTES is unset, or a string: an        *)
(* optional sign, a number and a unit ("" when there is none).             *)
(***************************************************************************)
EnvUnset == [set |-> FALSE, neg |-> FALSE, n |-> 0, unit |-> ""]

EnvValues ==
    {EnvUnset} \cup
    { [set |-> TRUE, neg |-> s, n |-> n, unit |-> u] :
          s \in BOOLEAN, n \in 0..MaxTTLInput, u \in {"", "s", "m"} }

\* time.ParseDuration(valueStr), in seconds: the empty string is invalid, a
\* number without a unit is invalid unless it is 0
ParseDuration(v) ==
    LET secs == IF v.unit = "m" THEN 60 * v.n ELSE v.n
    IN  IF ~v.set THEN [ok |-> FALSE, seconds |-> 0]
        ELSE IF v.unit = "" THEN [ok |-> v.n = 0, seconds |-> 0]
        ELSE [ok |-> TRUE, seconds |-> IF v.neg THEN 0 - secs ELSE secs]

\* int(value.Minutes()): the conversion truncates toward zero
MinutesOf(seconds) ==
    IF seconds < 0 THEN 0 - ((0 - seconds) \div 60) ELSE seconds \div 60

\* getEnvAsInt(key, defaultValue): the minutes of the parsed duration, or
\* the default when the value does not parse
getEnvAsInt(v, defaultValue) ==
    IF ParseDuration(v).ok THEN MinutesOf(ParseDuration(v).seconds)
    ELSE defaultValue

\* RedisTTL: time.Duration(getEnvAsInt("REDIS_TTL_MINUTES", 5)) * time.Minute,
\* in minutes
RedisTTL(v) == getEnvAsInt(v, 5)

(***************************************************************************)
(* RedisRepository: the cache calls.  backend is what the Redis server     *)
(* does with the command: "ok" (it answers), "error" (it answers with an   *)
(* error, or the connection fails) or "hang" (no answer).                  *)
(***************************************************************************)
Backends == {"ok", "error", "hang"}

\* executeWithTimeout: the error of the operation, or the timeout error when
\* the derived context is done first (the caller's context is done, or the
\* operation does not answer within defaultTimeout)
executeWithTimeout(ctxDone, backend, opErr) ==
    IF ctxDone \/ backend = "hang"
    THEN Wrapf("redis operation timed out", <<ErrCtx>>)
    ELSE opErr

\* the operation cacheGet runs: client.Get(ctx, key).Result()
redisGetErr(c, key, backend) ==
    IF backend = "error" THEN <<ErrRedis>>
    ELSE IF ~RedisHas(c, key) THEN <<ErrCacheMiss>>
    ELSE NoErr

\* cacheGet(ctx, key, &user)
cacheGetUser(c, key, ctxDone, backend) ==
    LET err == executeWithTimeout(ctxDone, backend, redisGetErr(c, key, backend))
    IN  IF err # NoErr THEN Result(<<ZeroUser>>, err) ELSE UnmarshalUser(c[key])

\* cacheGet(ctx, key, &users)
cacheGetList(c, key, ctxDone, backend) ==
    LET err == executeWithTimeout(ctxDone, backend, redisGetErr(c, key, backend))
    IN  IF err # NoErr THEN Result(<< >>, err) ELSE UnmarshalList(c[key])

\* invalidateCache without the DEL of the record's own key
invalidateKeysListOnly(id) == {listPattern}

\* the keys invalidateCache passes to DEL
invalidateKeys(id) == {generateKey(id), listPattern}

RedisDelAll(c, keys) == [x \in DOMAIN c \ keys |-> c[x]]

(***************************************************************************)
(* State.                                                                  *)
(***************************************************************************)
VARIABLES
    rows,       \* the users table of the warehouse
    cache,      \* the Redis key space: key -> payload
    writer,     \* per cached key, the call whose population wrote it (0: none)
    calls,      \* per handler, the call in flight
    pops,       \* the background population goroutines not yet run
    ncalls,     \* calls issued so far; also the clock of time.Now()
    ctxDone,    \* the calls whose request context is done
    last,       \* the call that returned most recently
    ttl,        \* RedisRepository.ttl, in minutes
    exec,       \* one run of executeWithTimeout: caller, worker, errChan
    timed,      \* one GetByID on a time line (seconds), for the deadlines
    probe       \* the shared helpers applied to drawn inputs

vars == <<rows, cache, writer, calls, pops, ncalls, ctxDone, last, ttl, exec, timed, probe>>

Reads == {"GetAll", "GetByID"}

Writes == {"Create", "Update", "Delete"}

NoParams == [Page |-> 0, PageSize |-> 0]

\* what a call remembers of the call that returned last before it started
NoPrev ==
    [op |-> "idle", n |-> 0, id |-> "", val |-> << >>, rd |-> "none",
     inv |-> "none", racing |-> FALSE, pre |-> {}, name |-> ""]

(* A call in flight: op, pc, the arguments (id, user, params), the request  *)
(* number n, and what the call has done so far:                            *)
(*   decoded   the local variable cacheGet decodes into (user, users)      *)
(*   res       the result it returns                                       *)
(*   rd        the outcome of its cache read                               *)
(*   rdBy      the call whose population wrote the entry it read           *)
(*   inv       the outcome of its cache invalidation                       *)
(*   racing    whether a population of its key was pending at that time    *)
(*   ans       the answer of the primary store to its (last) store call    *)
(*   storeOps, cacheOps   the store and cache calls it has issued          *)
(*   pre       the names the rows of its id held before its UPDATE         *)
(*   overlap   whether another call was in flight during it                *)
(*   prev      the call that returned last before it started               *)
Idle ==
    [op |-> "idle", pc |-> "idle", n |-> 0, id |-> "", user |-> ZeroUser,
     params |-> NoParams, decoded |-> << >>, res |-> NoResult,
     rd |-> "none", rdBy |-> 0,
     inv |-> "none", racing |-> FALSE, ans |-> NoResult, storeOps |-> 0,
     cacheOps |-> 0,
     pre |-> {}, overlap |-> FALSE, prev |-> NoPrev]

\* what is remembered of a call that returned: of a GetByID or an Update
\* that succeeded, what it read or wrote; of any other call, nothing
Summary(c) ==
    IF c.res.err = NoErr /\ c.op \in {"GetByID", "Update"}
    THEN [op |-> c.op, n |-> c.n, id |-> IF c.op = "Update" THEN c.user.ID ELSE c.id,
          val |-> c.res.val, rd |-> c.rd, inv |-> c.inv, racing |-> c.racing,
          pre |-> c.pre,
          name |-> c.user.Name]
    ELSE NoPrev

InFlight(p) == calls[p].op # "idle"

\* the parameters of the query of BigQueryRepository.GetAll
NoQuery == [pageSize |-> 0, offset |-> 0]

\* a query parameter of a request that does not carry it
Unset == [kind |-> "unset", n |-> 0]

\* the helpers when nothing is drawn; request and echoed are the query
\* parameters of a GET /users and the pagination of its response
NoProbe ==
    [pc |-> "idle", request |-> [page |-> Unset, pageSize |-> Unset],
     echoed |-> NoParams,
     id |-> <<"", "">>, params |-> <<NoParams, NoParams>>,
     once |-> <<NoParams, NoParams>>, twice |-> <<NoParams, NoParams>>,
     key |-> <<"", "">>, listKey |-> <<"", "">>,
     query |-> <<NoQuery, NoQuery>>, normalized |-> 0]

\* executeWithTimeout when it is not running
NoExec ==
    [pc |-> "idle", worker |-> "none", errChan |-> << >>, op |-> "none",
     now |-> 0, deadline |-> 0, ctx |-> 0, backend |-> "ok", delay |-> 0,
     opErr |-> NoErr, res |-> NoErr, returnedAt |-> 0]

\* the time line when no call is timed
NoTimed ==
    [call |-> Idle, now |-> 0, deadline |-> 0, backend |-> "ok",
     cacheDelay |-> 0, storeDelay |-> 0]

\* the cache key of a read call
KeyOf(c) == IF c.op = "GetAll" THEN generateListKey(c.params) ELSE generateKey(c.id)

\* the id a write call invalidates
WriteID(c) == IF c.op = "Delete" THEN c.id ELSE c.user.ID

(***************************************************************************)
(* Init: the warehouse table and the Redis key space outlive the process.  *)
(* The table holds a user; the key space is empty, or holds payloads this  *)
(* version cannot decode, or holds the entries an earlier run cached for   *)
(* that user and that have not expired.                                    *)
(***************************************************************************)
InitUser == NewUser("u1", "a", 0)

EmptyCache == [x \in {} |-> Garbage]

DefaultListKey == generateListKey(ValidatePagination([Page |-> 0, PageSize |-> 0]))

GarbageCache == [x \in {generateKey("u1"), DefaultListKey} |-> Garbage]

WarmCache ==
    [x \in {generateKey("u1"), DefaultListKey} |->
        IF x = DefaultListKey THEN MarshalList(<<InitUser>>) ELSE MarshalUser(InitUser)]

Init ==
    /\ rows = <<InitUser>>
    /\ cache \in {EmptyCache, GarbageCache, WarmCache}
    /\ writer = [k \in DOMAIN cache |-> 0]
    /\ calls = [p \in Procs |-> Idle]
    /\ pops = {}
    /\ ncalls = 0
    /\ ctxDone = {}
    /\ last = NoPrev
    /\ ttl = RedisTTL(EnvUnset)
    /\ exec = NoExec
    /\ timed = NoTimed
    /\ probe = NoProbe

(***************************************************************************)
(* Starting and returning.                                                 *)
(*                                                                         *)
(* Two calls follow each other when the first has returned before the      *)
(* second starts and no other call was in flight during either; only then  *)
(* does a call remember the one before it.                                 *)
(***************************************************************************)
\* handler p starts call c: it takes the next request number, and every
\* call in flight now overlaps with it
Begin(p, c) ==
    LET alone == \A r \in Procs \ {p} : ~InFlight(r)
    IN  /\ calls' = [q \in Procs |->
                        IF q = p
                        THEN [c EXCEPT !.n = ncalls + 1,
                                       !.overlap = ~alone,
                                       !.prev = IF alone THEN last ELSE NoPrev]
                        ELSE IF InFlight(q)
                        THEN [calls[q] EXCEPT !.overlap = TRUE, !.prev = NoPrev]
                        ELSE calls[q]]
        /\ last' = IF alone THEN last ELSE NoPrev
        /\ ncalls' = ncalls + 1

\* a call that has its result returns before anything else happens: the
\* return is local to the handler
Returning == \E q \in Procs : calls[q].pc = "done"

\* the call returns to its caller: the handler is free again and the request
\* context is cancelled (net/http cancels it when the handler returns)
Return(p) ==
    /\ calls[p].pc = "done"
    /\ calls' = [calls EXCEPT ![p] = Idle]
    /\ last' = IF calls[p].overlap THEN NoPrev ELSE Summary(calls[p])
    /\ ctxDone' = ctxDone \cup {calls[p].n}
    /\ UNCHANGED <<ttl, exec, timed, probe, rows, cache, writer, pops, ncalls>>

\* handlers are interchangeable: a new call takes p1 when p1 is free
CanStart(p) ==
    /\ ~Returning
    /\ ~InFlight(p)
    /\ ncalls < MaxCalls
    /\ p # "p1" => InFlight("p1")

\* handler p is about to issue the I/O call of pc, its context not yet done
At(p, pc) == ~Returning /\ calls[p].pc = pc

(***************************************************************************)
(* The read path: RedisRepository.GetByID and GetAll.                      *)
(***************************************************************************)
GetByIDStart(p, id) ==
    /\ CanStart(p)
    /\ IF ValidateID(id) # NoErr
       THEN Begin(p, [Idle EXCEPT !.op = "GetByID", !.id = id, !.pc = "done",
                                  !.res = Result(<<ZeroUser>>, ValidateID(id))])
       ELSE Begin(p, [Idle EXCEPT !.op = "GetByID", !.id = id, !.pc = "cacheGet",
                                  !.decoded = <<ZeroUser>>])
    /\ UNCHANGED <<ttl, exec, timed, probe, rows, cache, writer, pops, ctxDone>>

GetAllStart(p, params) ==
    /\ CanStart(p)
    /\ Begin(p, [Idle EXCEPT !.op = "GetAll", !.params = ValidatePagination(params),
                             !.pc = "cacheGet"])
    /\ UNCHANGED <<ttl, exec, timed, probe, rows, cache, writer, pops, ctxDone>>

\* how the read path sees the outcome of cacheGet
ReadOutcome(err) ==
    CASE err = NoErr                 -> "hit"
      [] ErrorsIs(err, ErrCacheMiss) -> "miss"
      [] ErrorsIs(err, ErrJSON)      -> "malformed"
      [] ErrorsIs(err, ErrRedis)     -> "error"
      [] OTHER                       -> "timeout"

\* err := r.cacheGet(ctx, cacheKey, &user); if err == nil { return user, nil }
CacheGetStep(c, done, backend) ==
    LET key == KeyOf(c)
        r   == IF c.op = "GetByID"
               THEN cacheGetUser(cache, key, done, backend)
               ELSE cacheGetList(cache, key, done, backend)
        c1  == [c EXCEPT !.rd = ReadOutcome(r.err), !.cacheOps = @ + 1,
                         !.decoded = r.val,
                         !.rdBy = IF RedisHas(writer, key) THEN writer[key] ELSE 0]
    IN  IF r.err = NoErr THEN [c1 EXCEPT !.res = r, !.pc = "done"]
                         ELSE [c1 EXCEPT !.pc = "store"]

CacheGet(p, backend) ==
    /\ At(p, "cacheGet")
    /\ calls' = [calls EXCEPT ![p] = CacheGetStep(calls[p], FALSE, backend)]
    /\ UNCHANGED <<ttl, exec, timed, probe, rows, cache, writer, pops, ncalls, ctxDone, last>>

\* BigQueryRepository.GetByID: the answers the store may give; ok is
\* whether the query itself succeeds
BigQueryGetByID(id, done, ok) ==
    IF ValidateID(id) # NoErr THEN { Result(<<ZeroUser>>, ValidateID(id)) }
    ELSE IF done \/ ~ok THEN { Result(<<ZeroUser>>, bqFailure(done)) }
    ELSE bqGetByID(rows, id)

\* BigQueryRepository.GetAll
BigQueryGetAll(params, done, ok) ==
    IF done \/ ~ok THEN { Result(<< >>, bqFailure(done)) }
    ELSE { bqGetAll(rows, params) }

\* the answers of the store call of a read
StoreAnswers(c, done, ok) ==
    IF c.op = "GetByID" THEN BigQueryGetByID(c.id, done, ok)
                        ELSE BigQueryGetAll(c.params, done, ok)

\* a fallthrough that keeps what cacheGet decoded when the store fails
GetByIDFallthroughKeepDecoded(decoded, ans) ==
    IF ans.err # NoErr THEN Result(decoded, NoErr) ELSE Result(ans.val, NoErr)

\* GetByID after the cache read failed: user, err = r.repository.GetByID(...)
\* overwrites the local user; an error is wrapped and returned with the
\* zero user
GetByIDFallthrough(decoded, ans) ==
    IF ans.err # NoErr
    THEN Result(<<ZeroUser>>, Wrapf("failed to get user from repository", ans.err))
    ELSE Result(ans.val, NoErr)

\* GetAll after the cache read failed
GetAllFallthrough(decoded, ans) ==
    IF ans.err # NoErr
    THEN Result(<< >>, Wrapf("failed to get users from repository", ans.err))
    ELSE Result(ans.val, NoErr)

\* user, err = r.repository.GetByID(ctx, id); ...; return user, nil
StoreReadStep(c, ans) ==
    [c EXCEPT !.ans = ans, !.storeOps = @ + 1, !.pc = "done",
              !.res = IF c.op = "GetByID" THEN GetByIDFallthrough(c.decoded, ans)
                                          ELSE GetAllFallthrough(c.decoded, ans)]

\* a population under the context of the request that spawns it
PopulationContextRequest(n) == n

\* the context of the population goroutine: context.Background(), which is
\* never done (0 is no request); n is the request that spawns it
PopulationContext(n) == 0

\* go func() { r.cacheSet(context.Background(), cacheKey, value) }()
Population(c) ==
    [n |-> c.n, key |-> KeyOf(c), ctx |-> PopulationContext(c.n),
     payload |-> IF c.op = "GetByID" THEN MarshalUser(c.res.val[1])
                                     ELSE MarshalList(c.res.val)]

\* a read that spawns its population whatever the store answered
SpawnedAlways(c) == {Population(c)}

\* the goroutines a read spawns with its store call: one, when the store
\* answered without error
Spawned(c) == IF c.ans.err = NoErr THEN {Population(c)} ELSE {}

\* the store call of the read path, the background population it spawns and
\* the result
StoreRead(p, ok) ==
    /\ At(p, "store")
    /\ \E ans \in StoreAnswers(calls[p], FALSE, ok) :
         /\ calls' = [calls EXCEPT ![p] = StoreReadStep(calls[p], ans)]
         /\ pops' = pops \cup Spawned(StoreReadStep(calls[p], ans))
    /\ UNCHANGED <<ttl, exec, timed, probe, rows, cache, writer, ncalls, ctxDone, last>>

\* r.cacheSet(ctx, key, value): the error it returns
cacheSetErr(done, backend) ==
    executeWithTimeout(done, backend, IF backend = "error" THEN <<ErrRedis>> ELSE NoErr)

\* whether the server executed a command: it did when it answered without
\* error; when it did not answer in time it may still have executed it
\* (served), unless the context was done before the command was sent
Executed(done, backend, served) ==
    \/ ~done /\ backend = "ok"
    \/ ~done /\ backend = "hang" /\ served

\* a population goroutine runs: its error is only logged
Populate(t, backend, served) ==
    /\ ~Returning
    /\ t \in pops
    /\ pops' = pops \ {t}
    /\ IF Executed(t.ctx \in ctxDone, backend, served)
       THEN /\ cache' = RedisSet(cache, t.key, t.payload)
            /\ writer' = RedisSet(writer, t.key, t.n)
       ELSE UNCHANGED <<cache, writer>>
    /\ UNCHANGED <<ttl, exec, timed, probe, rows, calls, ncalls, ctxDone, last>>

(***************************************************************************)
(* The write path: RedisRepository.Create, Update and Delete.              *)
(***************************************************************************)
\* uuid.New().String(): an identifier no earlier call has generated; n is
\* the number of the call
NewUUID(n) == "uuid-" \o ToString(n)

\* UserUseCase.CreateUser: if user.ID == "" { user.ID = uuid.New().String() }
AssignID(id, n) == IF id = "" THEN NewUUID(n) ELSE id

\* UserUseCase.CreateUser sets the ID and the timestamps (time.Now()), then
\* RedisRepository.Create starts
CreateStart(p, id, name) ==
    /\ CanStart(p)
    /\ Begin(p, [Idle EXCEPT !.op = "Create", !.pc = "exec",
                             !.user = NewUser(AssignID(id, ncalls + 1), name,
                                              ncalls + 1)])
    /\ UNCHANGED <<ttl, exec, timed, probe, rows, cache, writer, pops, ctxDone>>

UpdateStart(p, id, name) ==
    LET c == [Idle EXCEPT !.op = "Update", !.user = NewUser(id, name, 0)]
    IN  /\ CanStart(p)
        /\ IF ValidateID(id) # NoErr
           THEN Begin(p, [c EXCEPT !.pc = "done", !.res = Result(<< >>, ValidateID(id))])
           ELSE Begin(p, [c EXCEPT !.pc = "check"])
        /\ UNCHANGED <<ttl, exec, timed, probe, rows, cache, writer, pops, ctxDone>>

DeleteStart(p, id) ==
    LET c == [Idle EXCEPT !.op = "Delete", !.id = id]
    IN  /\ CanStart(p)
        /\ IF ValidateID(id) # NoErr
           THEN Begin(p, [c EXCEPT !.pc = "done", !.res = Result(<< >>, ValidateID(id))])
           ELSE Begin(p, [c EXCEPT !.pc = "check"])
        /\ UNCHANGED <<ttl, exec, timed, probe, rows, cache, writer, pops, ctxDone>>

\* the message each write wraps a store error in
WriteMsg(op) ==
    CASE op = "Create" -> "failed to create user in repository"
      [] op = "Update" -> "failed to update user in repository"
      [] OTHER         -> "failed to delete user from repository"

\* a wrapping with %v: the chain of err is lost
WriteFailureOpaque(op, err) == Result(<< >>, <<WriteMsg(op)>>)

\* if err := r.repository.X(ctx, ...); err != nil { return fmt.Errorf("...: %w", err) }
WriteFailure(op, err) == Result(<< >>, Wrapf(WriteMsg(op), err))

\* a write that goes on to the invalidation after a store error
OnStoreErrorContinue(op) == "invalidate"

\* where a write goes on after the store returned an error: it returns
OnStoreError(op) == "done"

\* BigQueryRepository.Update and Delete, first half: "First check if user
\* exists" (ValidateID and GetByID); an error ends the call
StoreCheckStep(c, ans) ==
    LET c1 == [c EXCEPT !.ans = Result(<< >>, ans.err), !.storeOps = @ + 1]
    IN  IF ans.err # NoErr
        THEN [c1 EXCEPT !.res = WriteFailure(c.op, ans.err), !.pc = OnStoreError(c.op)]
        ELSE [c1 EXCEPT !.pc = "exec"]

StoreCheck(p, ok) ==
    /\ At(p, "check")
    /\ \E ans \in BigQueryGetByID(WriteID(calls[p]), FALSE, ok) :
         calls' = [calls EXCEPT ![p] = StoreCheckStep(calls[p], ans)]
    /\ UNCHANGED <<ttl, exec, timed, probe, rows, cache, writer, pops, ncalls, ctxDone, last>>

\* the table after the statement of a write
bqExec(c) ==
    CASE c.op = "Create" -> bqCreate(rows, c.user)
      [] c.op = "Update" -> bqUpdate(rows, c.user)
      [] OTHER           -> bqDelete(rows, c.id)

\* the error of the statement of a write that fails
execFailure(op, done) == IF op = "Create" THEN putFailure(done) ELSE bqFailure(done)

\* the names the rows of id hold
NamesOf(id) == { rows[i].Name : i \in { j \in 1..Len(rows) : rows[j].ID = id } }

\* the insert of Create, the UPDATE of Update, the DELETE of Delete: err is
\* the error of inserter.Put or of executeUpdateQuery
StoreExecStep(c, err) ==
    LET c1 == [c EXCEPT !.ans = Result(<< >>, err), !.storeOps = @ + 1,
                        !.pre = NamesOf(WriteID(c))]
    IN  IF err # NoErr
        THEN [c1 EXCEPT !.res = WriteFailure(c.op, err), !.pc = OnStoreError(c.op)]
        ELSE [c1 EXCEPT !.pc = "invalidate"]

StoreExec(p, ok) ==
    /\ At(p, "exec")
    /\ calls' = [calls EXCEPT ![p] =
                    StoreExecStep(calls[p], IF ok THEN NoErr
                                             ELSE execFailure(calls[p].op, FALSE))]
    /\ rows' = IF ok THEN bqExec(calls[p]) ELSE rows
    /\ UNCHANGED <<ttl, exec, timed, probe, cache, writer, pops, ncalls, ctxDone, last>>

\* invalidateCache(ctx, id): the error it returns
invalidateCacheErr(done, backend) ==
    executeWithTimeout(done, backend, IF backend = "error" THEN <<ErrRedis>> ELSE NoErr)

\* how a write sees the outcome of invalidateCache
InvalidateOutcome(err) ==
    CASE err = NoErr             -> "ok"
      [] ErrorsIs(err, ErrRedis) -> "error"
      [] OTHER                   -> "timeout"

\* a write that returns the invalidation error
WriteSuccessStrict(invErr) ==
    Result(<< >>, IF invErr = NoErr THEN NoErr
                  ELSE Wrapf("failed to invalidate cache", invErr))

\* what a write returns once the store has committed: the invalidation
\* error is logged, the call returns nil
WriteSuccess(invErr) == Result(<< >>, NoErr)

\* if err := r.invalidateCache(ctx, id); err != nil { log.Printf(...) }; return nil
InvalidateStep(c, done, backend) ==
    [c EXCEPT !.inv = InvalidateOutcome(invalidateCacheErr(done, backend)),
              !.cacheOps = @ + 1,
              !.racing = \E t \in pops : t.key = generateKey(WriteID(c)),
              !.res = WriteSuccess(invalidateCacheErr(done, backend)),
              !.pc = "done"]

Invalidate(p, backend, served) ==
    /\ At(p, "invalidate")
    /\ calls' = [calls EXCEPT ![p] = InvalidateStep(calls[p], FALSE, backend)]
    /\ IF Executed(FALSE, backend, served)
       THEN /\ cache' = RedisDelAll(cache, invalidateKeys(WriteID(calls[p])))
            /\ writer' = RedisDelAll(writer, invalidateKeys(WriteID(calls[p])))
       ELSE UNCHANGED <<cache, writer>>
    /\ UNCHANGED <<ttl, exec, timed, probe, rows, pops, ncalls, ctxDone, last>>

(***************************************************************************)
(* UserUseCase: the error translation on top of the repository.  Each      *)
(* operator gives the error the use case returns for the error err of the  *)
(* repository call.                                                        *)
(***************************************************************************)
\* a validation that does not look at the ID
validateUserFields(user, isCreate) ==
    IF user.Name = "" THEN <<"name is required", ErrValidation>> ELSE NoErr

\* validateUser(&user, isCreate); name and email are one payload
validateUser(user, isCreate) ==
    IF ~isCreate /\ user.ID = "" THEN <<"id is required", ErrValidation>>
    ELSE IF user.Name = "" THEN <<"name is required", ErrValidation>>
    ELSE NoErr

\* UserUseCase.GetAllUsers
GetAllUsers(err) ==
    IF err = NoErr THEN NoErr ELSE Wrapf("failed to get users", err)

\* UserUseCase.CreateUser
CreateUser(user, err) ==
    IF validateUser(user, TRUE) # NoErr THEN validateUser(user, TRUE)
    ELSE IF err = NoErr THEN NoErr
    ELSE Wrapf("failed to create user", err)

\* UserUseCase.UpdateUser
UpdateUser(user, err) ==
    IF validateUser(user, FALSE) # NoErr THEN validateUser(user, FALSE)
    ELSE IF err = NoErr THEN NoErr
    ELSE IF ErrorsIs(err, ErrNotFound) THEN <<ErrUserNotFound>>
    ELSE Wrapf("failed to update user", err)

\* UserUseCase.GetUserByID
GetUserByID(id, err) ==
    IF id = "" THEN <<"id is required", ErrValidation>>
    ELSE IF err = NoErr THEN NoErr
    ELSE IF ErrorsIs(err, ErrNotFound) THEN <<ErrUserNotFound>>
    ELSE Wrapf("failed to get user", err)

\* UserUseCase.DeleteUser
DeleteUser(id, err) ==
    IF id = "" THEN <<"id is required", ErrValidation>>
    ELSE IF err = NoErr THEN NoErr
    ELSE IF ErrorsIs(err, ErrNotFound) THEN <<ErrUserNotFound>>
    ELSE Wrapf("failed to delete user", err)

\* the error the use case returns for call c of the repository
UseCaseErr(c) ==
    CASE c.op = "GetAll"  -> GetAllUsers(c.res.err)
      [] c.op = "GetByID" -> GetUserByID(c.id, c.res.err)
      [] c.op = "Create"  -> CreateUser(c.user, c.res.err)
      [] c.op = "Update"  -> UpdateUser(c.user, c.res.err)
      [] OTHER            -> DeleteUser(c.id, c.res.err)

\* handleError: the kind of an error of the use case
handleError(err) ==
    CASE err = NoErr                    -> "OK"
      [] ErrorsIs(err, ErrUserNotFound) -> "NotFound"
      [] ErrorsIs(err, ErrValidation)   -> "Validation"
      [] OTHER                          -> "Internal"

\* the kind of an error of a repository, as its callers tell it:
\* errors.Is(err, repository.ErrNotFound)
RepoKind(err) ==
    CASE err = NoErr                -> "OK"
      [] ErrorsIs(err, ErrNotFound) -> "NotFound"
      [] OTHER                      -> "Internal"

(***************************************************************************)
(* The environment.                                                        *)
(***************************************************************************)
\* the next I/O call of c when its request context is done: a cache call is
\* not sent and times out, a store call fails, nothing is spawned
StepCancelled(c) ==
    CASE c.pc = "cacheGet"   -> CacheGetStep(c, TRUE, "ok")
      [] c.pc = "store"      -> StoreReadStep(c, CHOOSE a \in StoreAnswers(c, TRUE, TRUE) : TRUE)
      [] c.pc = "check"      ->
            StoreCheckStep(c, CHOOSE a \in BigQueryGetByID(WriteID(c), TRUE, TRUE) : TRUE)
      [] c.pc = "exec"       -> StoreExecStep(c, execFailure(c.op, TRUE))
      [] c.pc = "invalidate" -> InvalidateStep(c, TRUE, "ok")
      [] OTHER               -> c

RECURSIVE RunCancelled(_)
RunCancelled(c) == IF c.pc = "done" THEN c ELSE RunCancelled(StepCancelled(c))

\* the caller cancels a request, or its deadline passes.  From then on
\* every I/O call of the request fails without reaching Redis or BigQuery,
\* so the rest of the call touches neither: it runs to its result at once.
Cancel(p) ==
    /\ ~Returning
    /\ InFlight(p)
    /\ calls' = [calls EXCEPT ![p] = RunCancelled(calls[p])]
    /\ ctxDone' = ctxDone \cup {calls[p].n}
    /\ UNCHANGED <<ttl, exec, timed, probe, rows, cache, writer, pops, ncalls, last>>

\* the TTL of a cached entry passes; client.Set(ctx, key, data, r.ttl) gives
\* an entry a lifetime when r.ttl is positive, and none otherwise
Expire(k) ==
    /\ ~Returning
    /\ ttl > 0
    /\ k \in DOMAIN cache
    /\ cache' = RedisDel(cache, k)
    /\ writer' = RedisDel(writer, k)
    /\ UNCHANGED <<ttl, exec, timed, probe, rows, calls, pops, ncalls, ctxDone, last>>

Next ==
    \/ \E p \in Procs, id \in IDs : GetByIDStart(p, id)
    \/ \E p \in Procs, params \in PaginationInputs : GetAllStart(p, params)
    \/ \E p \in Procs, id \in NewIDs : CreateStart(p, id, NewName)
    \/ \E p \in Procs, id \in IDs :
          \E name \in IF id = "" THEN {NewName} ELSE Names : UpdateStart(p, id, name)
    \/ \E p \in Procs, id \in IDs : DeleteStart(p, id)
    \/ \E p \in Procs, backend \in Backends : CacheGet(p, backend)
    \/ \E p \in Procs, ok \in BOOLEAN : StoreRead(p, ok)
    \/ \E p \in Procs, ok \in BOOLEAN : StoreCheck(p, ok)
    \/ \E p \in Procs, ok \in BOOLEAN : StoreExec(p, ok)
    \/ \E p \in Procs, backend \in Backends :
          \E served \in IF backend = "hang" THEN BOOLEAN ELSE {FALSE} :
              Invalidate(p, backend, served)
    \/ \E t \in pops, backend \in Backends :
          \E served \in IF backend = "hang" THEN BOOLEAN ELSE {FALSE} :
              Populate(t, backend, served)
    \/ \E p \in Procs : Return(p)
    \/ \E p \in Procs : Cancel(p)
    \/ \E k \in DOMAIN cache : Expire(k)

Spec == Init /\ [][Next]_vars

(***************************************************************************)
(* GetByID on a time line.  The caller's context carries a deadline; the   *)
(* cache answers after cacheDelay seconds unless it hangs, the store       *)
(* after storeDelay seconds.  The store is healthy: its query fails only   *)
(* when the context is done.                                               *)
(***************************************************************************)
\* the calls that are timed: a deadline, a cache behaviour, a store delay
TimedInputs ==
    { [call |-> Idle, now |-> 0, deadline |-> d, backend |-> b,
       cacheDelay |-> cd, storeDelay |-> sd] :
          d \in 1..MaxDeadline, b \in Backends,
          cd \in 0..MaxCacheDelay, sd \in 0..MaxStoreDelay }

InitTimeout ==
    /\ rows = <<InitUser>>
    /\ cache \in {EmptyCache, GarbageCache, WarmCache}
    /\ writer = [k \in DOMAIN cache |-> 0]
    /\ calls = [p \in Procs |-> Idle]
    /\ pops = {}
    /\ ncalls = 0
    /\ ctxDone = {}
    /\ last = NoPrev
    /\ ttl = RedisTTL(EnvUnset)
    /\ exec = NoExec
    /\ timed \in { t \in TimedInputs : t.backend = "hang" => t.cacheDelay = 0 }
    /\ probe = NoProbe

\* a cache call bounded by the caller's deadline only
WithTimeoutNone(now, deadline) == deadline

\* ctx, cancel := context.WithTimeout(ctx, defaultTimeout): the deadline of
\* the derived context is the earlier of the two
WithTimeout(now, deadline) ==
    IF now + defaultTimeout < deadline THEN now + defaultTimeout ELSE deadline

Later(a, b) == IF a < b THEN b ELSE a

TimedGetByIDStart(id) ==
    /\ timed.call.op = "idle"
    /\ timed' = [timed EXCEPT !.call =
                    [Idle EXCEPT !.op = "GetByID", !.id = id, !.n = ncalls + 1,
                                 !.pc = "cacheGet", !.decoded = <<ZeroUser>>]]
    /\ ncalls' = ncalls + 1
    /\ UNCHANGED <<ttl, exec, probe, rows, cache, writer, calls, pops, ctxDone, last>>

\* the select of executeWithTimeout: the answer of Redis or the end of the
\* derived context, whichever is first; either when both are ready
TimedCacheGet ==
    LET c    == timed.call
        done == timed.now >= timed.deadline
        dl   == WithTimeout(timed.now, timed.deadline)
        at   == timed.now + timed.cacheDelay
    IN  /\ c.pc = "cacheGet"
        /\ \E answered \in BOOLEAN :
             /\ answered => ~done /\ timed.backend # "hang" /\ at <= dl
             /\ ~answered => done \/ timed.backend = "hang" \/ at >= dl
             /\ timed' = [timed EXCEPT
                    !.call = CacheGetStep(c, done, IF answered THEN timed.backend
                                                               ELSE "hang"),
                    !.now = IF answered THEN at ELSE Later(timed.now, dl)]
        /\ UNCHANGED <<ttl, exec, probe, rows, cache, writer, calls, pops, ncalls, ctxDone, last>>

\* the store query under the caller's context: the answer of BigQuery or
\* the end of the context, whichever is first; either when both are ready
TimedStoreRead ==
    LET c    == timed.call
        done == timed.now >= timed.deadline
        at   == timed.now + timed.storeDelay
    IN  /\ c.pc = "store"
        /\ \E answered \in BOOLEAN :
             /\ answered => ~done /\ at <= timed.deadline
             /\ ~answered => done \/ at >= timed.deadline
             /\ \E ans \in StoreAnswers(c, ~answered, TRUE) :
                  /\ timed' = [timed EXCEPT
                        !.call = StoreReadStep(c, ans),
                        !.now = IF answered THEN at
                                            ELSE Later(timed.now, timed.deadline)]
                  /\ pops' = pops \cup Spawned(StoreReadStep(c, ans))
        /\ UNCHANGED <<ttl, exec, probe, rows, cache, writer, calls, ncalls, ctxDone, last>>

NextTimeout ==
    \/ TimedGetByIDStart("u1")
    \/ TimedCacheGet
    \/ TimedStoreRead

SpecTimeout == InitTimeout /\ [][NextTimeout]_vars

(***************************************************************************)
(* Sequential calls on a healthy cache and a healthy store: one handler,   *)
(* every Redis command and every query answers without error, no request   *)
(* is cancelled, and a call starts only when the call before it has        *)
(* returned and its background population has run.                         *)
(***************************************************************************)
\* nothing is in flight: no call and no population
Quiet == pops = {} /\ \A p \in Procs : ~InFlight(p)

NextHealthy ==
    \/ Quiet /\ \E id \in IDs : GetByIDStart("p1", id)
    \/ Quiet /\ \E params \in PaginationInputs : GetAllStart("p1", params)
    \/ Quiet /\ \E id \in NewIDs : CreateStart("p1", id, NewName)
    \/ Quiet /\ \E id \in IDs, name \in Names : UpdateStart("p1", id, name)
    \/ Quiet /\ \E id \in IDs : DeleteStart("p1", id)
    \/ CacheGet("p1", "ok")
    \/ StoreRead("p1", TRUE)
    \/ StoreCheck("p1", TRUE)
    \/ StoreExec("p1", TRUE)
    \/ Invalidate("p1", "ok", FALSE)
    \/ \E t \in pops : Populate(t, "ok", FALSE)
    \/ Return("p1")
    \/ \E k \in DOMAIN cache : Expire(k)

SpecHealthy == Init /\ [][NextHealthy]_vars

(***************************************************************************)
(* Concurrent GetByID, Update and Delete on a healthy cache and a healthy  *)
(* store: two handlers, every Redis command and every query answers        *)
(* without error, no request is cancelled.  The steps of the calls and the *)
(* background populations interleave freely.                               *)
(***************************************************************************)
\* the key space holds nothing, or the entries an earlier run cached
InitRace ==
    /\ rows = <<InitUser>>
    /\ cache \in {EmptyCache, WarmCache}
    /\ writer = [k \in DOMAIN cache |-> 0]
    /\ calls = [p \in Procs |-> Idle]
    /\ pops = {}
    /\ ncalls = 0
    /\ ctxDone = {}
    /\ last = NoPrev
    /\ ttl = RedisTTL(EnvUnset)
    /\ exec = NoExec
    /\ timed = NoTimed
    /\ probe = NoProbe

NextRace ==
    \/ \E p \in Procs, id \in IDs : GetByIDStart(p, id)
    \/ \E p \in Procs, id \in IDs, name \in Names : UpdateStart(p, id, name)
    \/ \E p \in Procs, id \in IDs : DeleteStart(p, id)
    \/ \E p \in Procs : CacheGet(p, "ok")
    \/ \E p \in Procs : StoreRead(p, TRUE)
    \/ \E p \in Procs : StoreCheck(p, TRUE)
    \/ \E p \in Procs : StoreExec(p, TRUE)
    \/ \E p \in Procs : Invalidate(p, "ok", FALSE)
    \/ \E t \in pops : Populate(t, "ok", FALSE)
    \/ \E p \in Procs : Return(p)
    \/ \E k \in DOMAIN cache : Expire(k)

SpecRace == InitRace /\ [][NextRace]_vars

(***************************************************************************)
(* The lifetime of cache entries.  The process starts with any value of    *)
(* REDIS_TTL_MINUTES and serves sequential calls on a healthy cache and a  *)
(* healthy store.  Redis expires an entry that has a lifetime on its own   *)
(* clock, whatever the handlers do, and a handler that has its result      *)
(* returns.                                                                *)
(***************************************************************************)
InitTTL ==
    /\ rows = <<InitUser>>
    /\ cache \in {EmptyCache, WarmCache}
    /\ writer = [k \in DOMAIN cache |-> 0]
    /\ calls = [p \in Procs |-> Idle]
    /\ pops = {}
    /\ ncalls = 0
    /\ ctxDone = {}
    /\ last = NoPrev
    /\ ttl \in { RedisTTL(v) : v \in EnvValues }
    /\ exec = NoExec
    /\ timed = NoTimed
    /\ probe = NoProbe

\* the keys GetByID and GetAll cache under
CacheKeys == { generateKey(id) : id \in IDs \ {""} } \cup ListKeys

SpecTTL ==
    /\ InitTTL
    /\ [][NextHealthy]_vars
    /\ WF_vars(Return("p1"))
    /\ \A k \in CacheKeys : SF_vars(Expire(k))

(***************************************************************************)
(* executeWithTimeout, goroutine by goroutine, on a time line (seconds).   *)
(* The caller derives a context, makes errChan, starts the worker and      *)
(* waits in the select; the worker runs the operation and sends its error  *)
(* on errChan.  The caller's context is done at its deadline (a            *)
(* cancellation is a deadline at the time of the cancel).  The backend     *)
(* answers the operation after delay seconds, or never ("hang"); the       *)
(* client may give the operation up once the derived context is done.      *)
(***************************************************************************)
CacheOps == {"get", "set", "invalidate"}

ExecInputs ==
    { [NoExec EXCEPT !.op = o, !.deadline = d, !.backend = b, !.delay = cd] :
          o \in CacheOps, d \in 0..MaxDeadline, b \in Backends,
          cd \in 0..MaxCacheDelay }

InitExec ==
    /\ rows = <<InitUser>>
    /\ cache = EmptyCache
    /\ writer = [k \in DOMAIN cache |-> 0]
    /\ calls = [p \in Procs |-> Idle]
    /\ pops = {}
    /\ ncalls = 0
    /\ ctxDone = {}
    /\ last = NoPrev
    /\ ttl = RedisTTL(EnvUnset)
    /\ exec \in { e \in ExecInputs : e.backend = "hang" => e.delay = 0 }
    /\ timed = NoTimed
    /\ probe = NoProbe

\* a send on an unbuffered channel: it needs the receiver
CanSendUnbuffered(ch, receiving) == receiving

\* errChan := make(chan error, 1): a send proceeds while the buffer has room
CanSend(ch, receiving) == Len(ch) < 1

\* ctx, cancel := context.WithTimeout(ctx, defaultTimeout); errChan is made
\* and the worker goroutine started; the caller reaches the select
ExecStart ==
    /\ exec.pc = "idle"
    /\ exec' = [exec EXCEPT !.pc = "select", !.worker = "running",
                            !.ctx = WithTimeout(exec.now, exec.deadline)]
    /\ UNCHANGED <<rows, cache, writer, calls, pops, ncalls, ctxDone, last, ttl,
                   timed, probe>>

\* operation(ctx) returns: the backend has answered
OperationReturns ==
    /\ exec.worker = "running"
    /\ exec.backend # "hang" /\ exec.now >= exec.delay
    /\ exec' = [exec EXCEPT !.worker = "send",
                            !.opErr = IF exec.backend = "error" THEN <<ErrRedis>>
                                                                ELSE NoErr]
    /\ UNCHANGED <<rows, cache, writer, calls, pops, ncalls, ctxDone, last, ttl,
                   timed, probe>>

\* operation(ctx) returns the error of the context: the derived context is
\* done and the client gives the command up
OperationGivesUp ==
    /\ exec.worker = "running"
    /\ exec.now >= exec.ctx
    /\ exec' = [exec EXCEPT !.worker = "send", !.opErr = <<ErrCtx>>]
    /\ UNCHANGED <<rows, cache, writer, calls, pops, ncalls, ctxDone, last, ttl,
                   timed, probe>>

\* errChan <- operation(ctx): the send, after which the goroutine ends
WorkerSend ==
    /\ exec.worker = "send"
    /\ CanSend(exec.errChan, exec.pc = "select")
    /\ exec' = [exec EXCEPT !.worker = "exited", !.errChan = Append(@, exec.opErr)]
    /\ UNCHANGED <<rows, cache, writer, calls, pops, ncalls, ctxDone, last, ttl,
                   timed, probe>>

\* case err := <-errChan: return err
SelectErrChan ==
    /\ exec.pc = "select"
    /\ exec.errChan # << >>
    /\ exec' = [exec EXCEPT !.pc = "returned", !.res = Head(exec.errChan),
                            !.errChan = Tail(@), !.returnedAt = exec.now]
    /\ UNCHANGED <<rows, cache, writer, calls, pops, ncalls, ctxDone, last, ttl,
                   timed, probe>>

\* case <-ctx.Done(): return fmt.Errorf("redis operation timed out: %w", ...)
SelectCtxDone ==
    /\ exec.pc = "select"
    /\ exec.now >= exec.ctx
    /\ exec' = [exec EXCEPT !.pc = "returned", !.returnedAt = exec.now,
                            !.res = Wrapf("redis operation timed out", <<ErrCtx>>)]
    /\ UNCHANGED <<rows, cache, writer, calls, pops, ncalls, ctxDone, last, ttl,
                   timed, probe>>

\* a goroutine that can run now: a second does not pass before it has run
Runnable ==
    \/ exec.pc = "idle"
    \/ exec.pc = "select" /\ (exec.errChan # << >> \/ exec.now >= exec.ctx)
    \/ exec.worker = "running" /\ exec.backend # "hang" /\ exec.now >= exec.delay
    \/ exec.worker = "send" /\ CanSend(exec.errChan, exec.pc = "select")

\* a second passes
Tick ==
    /\ ~Runnable
    /\ exec.now < MaxDeadline
    /\ exec' = [exec EXCEPT !.now = @ + 1]
    /\ UNCHANGED <<rows, cache, writer, calls, pops, ncalls, ctxDone, last, ttl,
                   timed, probe>>

NextExec ==
    \/ ExecStart
    \/ OperationReturns
    \/ OperationGivesUp
    \/ WorkerSend
    \/ SelectErrChan
    \/ SelectCtxDone
    \/ Tick

SpecExec == InitExec /\ [][NextExec]_vars

(***************************************************************************)
(* The shared helpers on drawn inputs: two identifiers and two paginations *)
(* are drawn and taken through GetAll and GetByID: the paginations are     *)
(* normalised, the cache keys are derived, and on the way to the store the *)
(* paginations are normalised again for the query.                         *)
(***************************************************************************)
\* identifiers callers pass: the id path parameter and the id of a created
\* user are any string
KeyIDs == {"u1", "u2", "list:page_1:size_10"}

\* the page and page_size values callers pass
PageInputs == -1..MaxPage

ParamInputs == { [Page |-> a, PageSize |-> b] : a \in PageInputs, b \in PageInputs }

InitHelpers ==
    /\ rows = <<InitUser>>
    /\ cache = EmptyCache
    /\ writer = [k \in DOMAIN cache |-> 0]
    /\ calls = [p \in Procs |-> Idle]
    /\ pops = {}
    /\ ncalls = 0
    /\ ctxDone = {}
    /\ last = NoPrev
    /\ ttl = RedisTTL(EnvUnset)
    /\ exec = NoExec
    /\ timed = NoTimed
    /\ probe \in { [NoProbe EXCEPT !.pc = "drawn", !.id = <<i, j>>, !.params = <<a, b>>] :
                      i \in KeyIDs, j \in KeyIDs, a \in ParamInputs, b \in ParamInputs }

\* RedisRepository.GetAll: r.ValidatePagination(&params)
Normalize ==
    /\ probe.pc = "drawn"
    /\ probe' = [probe EXCEPT !.pc = "once",
                     !.once = [i \in 1..2 |-> ValidatePagination(probe.params[i])],
                     !.normalized = @ + 1]
    /\ UNCHANGED <<rows, cache, writer, calls, pops, ncalls, ctxDone, last, ttl, exec, timed>>

\* r.generateKey(id) and r.generateListKey(params)
GenerateKeys ==
    /\ probe.pc = "once"
    /\ probe' = [probe EXCEPT !.pc = "keys",
                     !.key = [i \in 1..2 |-> generateKey(probe.id[i])],
                     !.listKey = [i \in 1..2 |-> generateListKey(probe.once[i])]]
    /\ UNCHANGED <<rows, cache, writer, calls, pops, ncalls, ctxDone, last, ttl, exec, timed>>

\* on a miss, BigQueryRepository.GetAll with the params RedisRepository.GetAll
\* has normalised: r.ValidatePagination(&params) again, then the parameters
\* of the query
NormalizeAgain ==
    /\ probe.pc = "keys"
    /\ probe' = [probe EXCEPT !.pc = "query",
                     !.twice = [i \in 1..2 |-> ValidatePagination(probe.once[i])],
                     !.query = [i \in 1..2 |->
                         [pageSize |-> ValidatePagination(probe.once[i]).PageSize,
                          offset |-> CalculateOffset(ValidatePagination(probe.once[i]))]],
                     !.normalized = @ + 1]
    /\ UNCHANGED <<rows, cache, writer, calls, pops, ncalls, ctxDone, last, ttl, exec, timed>>

NextHelpers ==
    \/ Normalize
    \/ GenerateKeys
    \/ NormalizeAgain

SpecHelpers == InitHelpers /\ [][NextHelpers]_vars

(***************************************************************************)
(* GET /users from the handler to the store query: UserHandler.GetUsers    *)
(* parses the query parameters, UserUseCase.GetAllUsers builds the         *)
(* PaginationParams, RedisRepository.GetAll normalises them and derives    *)
(* the cache key, and on a miss BigQueryRepository.GetAll normalises them  *)
(* again for the query.                                                    *)
(***************************************************************************)
\* c.QueryParam(name): unset (""), a text that is no number, or a number
QueryValues ==
    { Unset, [kind |-> "text", n |-> 0] } \cup
    { [kind |-> "int", n |-> n] : n \in PageInputs \cup {10, 11} }

InitHandler ==
    /\ rows = <<InitUser>>
    /\ cache = EmptyCache
    /\ writer = [k \in DOMAIN cache |-> 0]
    /\ calls = [p \in Procs |-> Idle]
    /\ pops = {}
    /\ ncalls = 0
    /\ ctxDone = {}
    /\ last = NoPrev
    /\ ttl = RedisTTL(EnvUnset)
    /\ exec = NoExec
    /\ timed = NoTimed
    /\ probe \in { [NoProbe EXCEPT !.pc = "request", !.request = [page |-> a, pageSize |-> b],
                                   !.id = <<"u1", "u1">>] :
                      a \in QueryValues, b \in QueryValues }

\* if s := c.QueryParam(...); s != "" { if v, err := strconv.Atoi(s);
\* err == nil && v > 0 { value = v } }
ParseQueryParam(q, defaultValue) ==
    IF q.kind = "int" /\ q.n > 0 THEN q.n ELSE defaultValue

\* the builtin max
max(a, b) == IF a < b THEN b ELSE a

\* UserHandler.GetUsers: page := 1, pageSize := 10, then the parameters of
\* the request; the pair is passed to GetAllUsers and echoed in the response
GetUsers ==
    /\ probe.pc = "request"
    /\ probe' = [probe EXCEPT !.pc = "parsed",
                     !.echoed = [Page     |-> ParseQueryParam(probe.request.page, 1),
                                 PageSize |-> ParseQueryParam(probe.request.pageSize, 10)]]
    /\ UNCHANGED <<rows, cache, writer, calls, pops, ncalls, ctxDone, last, ttl, exec, timed>>

\* UserUseCase.GetAllUsers: the PaginationParams it passes to cacheRepo.GetAll
GetAllUsersParams(page, pageSize) ==
    [Page |-> max(page, 1), PageSize |-> max(pageSize, 10)]

GetAllUsersCall ==
    /\ probe.pc = "parsed"
    /\ probe' = [probe EXCEPT !.pc = "drawn",
                     !.params = [i \in 1..2 |->
                         GetAllUsersParams(probe.echoed.Page, probe.echoed.PageSize)]]
    /\ UNCHANGED <<rows, cache, writer, calls, pops, ncalls, ctxDone, last, ttl, exec, timed>>

NextHandler ==
    \/ GetUsers
    \/ GetAllUsersCall
    \/ Normalize
    \/ GenerateKeys
    \/ NormalizeAgain

SpecHandler == InitHandler /\ [][NextHandler]_vars

(***************************************************************************)
(* Properties.  A call at "done" has its result and is about to return;    *)
(* what it remembers of the call before it (prev) is set only when the two *)
(* calls did not overlap with each other or with any other call.           *)
(***************************************************************************)
\* a GetByID that returns a record, directly after an Update of the same id
\* that returned success
ReadAfterUpdate(c) ==
    /\ c.op = "GetByID" /\ c.pc = "done" /\ c.res.err = NoErr
    /\ c.prev.op = "Update" /\ c.prev.id = c.id

\* the payloads the record held before the Update and no longer holds
PreUpdate(c) == c.prev.pre \ {c.prev.name}

\* C1 as stated: after Update(R) returned success, a following GetByID(R.id)
\* never returns the pre-update payload, whatever the cache held before and
\* whatever the outcome of the Update's cache invalidation.
C1_WriteThenReadAlways ==
    \A p \in Procs :
        ReadAfterUpdate(calls[p]) => calls[p].res.val[1].Name \notin PreUpdate(calls[p])

\* C1, amended: after Update(R) returned success with its cache invalidation
\* succeeded and no background population of R.id pending at that time, a
\* following GetByID(R.id) never returns the pre-update payload, whatever
\* the cache held before the Update.
C1_WriteThenRead ==
    \A p \in Procs :
        ( /\ ReadAfterUpdate(calls[p])
          /\ calls[p].prev.inv = "ok"
          /\ ~calls[p].prev.racing )
        => calls[p].res.val[1].Name \notin PreUpdate(calls[p])

\* an Update changed the payload and invalidated the cache, and the
\* following GetByID returns the new payload
C1_Witness ==
    \E p \in Procs :
        /\ ReadAfterUpdate(calls[p])
        /\ calls[p].prev.inv = "ok" /\ ~calls[p].prev.racing
        /\ PreUpdate(calls[p]) # {}
        /\ calls[p].res.val[1].Name = calls[p].prev.name

\* C2: when a Create, Update or Delete has succeeded and its invalidation
\* reached the cache backend without error, the cache holds no entry under
\* the record's singular key and no entry under any list key.
C2_NoUnderInvalidation ==
    \A p \in Procs :
        ( /\ calls[p].op \in Writes /\ calls[p].pc = "done"
          /\ calls[p].res.err = NoErr /\ calls[p].inv = "ok" )
        => /\ generateKey(WriteID(calls[p])) \notin DOMAIN cache
           /\ DOMAIN cache \cap ListKeys = {}

\* a read whose cache read failed: miss, malformed payload, backend error
\* or timeout
CacheReadFailed(c) ==
    /\ c.op \in Reads /\ c.pc = "done"
    /\ c.rd \in {"miss", "malformed", "error", "timeout"}

\* the errors that originate in the cache layer
CacheLayerErrors == {ErrCacheMiss, ErrRedis, ErrJSON, "redis operation timed out"}

\* the zero value a read returns with an error
ZeroValue(c) == IF c.op = "GetByID" THEN <<ZeroUser>> ELSE << >>

\* C3: on the read path every cache-read failure falls through to the
\* store: the store is called once and the call returns exactly the store's
\* answer; no cache-layer error is returned; a store error is returned, in
\* its chain, with the zero value and not with cached or decoded data.
C3_ReadFallthrough ==
    \A p \in Procs :
        LET c == calls[p]
        IN  CacheReadFailed(c) =>
              /\ c.storeOps = 1
              /\ \A i \in 1..Len(c.res.err) : c.res.err[i] \notin CacheLayerErrors
              /\ IF c.ans.err = NoErr
                 THEN /\ c.res = c.ans
                      /\ c.res \in StoreAnswers(c, FALSE, TRUE)
                 ELSE /\ c.res.val = ZeroValue(c)
                      /\ Len(c.res.err) = Len(c.ans.err) + 1
                      /\ SubSeq(c.res.err, 2, Len(c.res.err)) = c.ans.err

\* the cache held a payload that does not decode, the store failed, and the
\* read returns the store's error
C3_Witness ==
    \E p \in Procs :
        /\ CacheReadFailed(calls[p]) /\ calls[p].op = "GetByID"
        /\ calls[p].rd = "malformed"
        /\ calls[p].decoded = <<PartialUser>>
        /\ ErrorsIs(calls[p].res.err, ErrBigQuery)

\* a write whose store operation has succeeded
StoreSucceeded(c) ==
    /\ c.op \in Writes /\ c.pc = "done"
    /\ c.storeOps > 0 /\ c.ans.err = NoErr

\* C4: whenever the store operation of Create, Update or Delete succeeds,
\* the call returns success, whatever the outcome of the cache invalidation.
C4_InvalidationNonFatal ==
    \A p \in Procs : StoreSucceeded(calls[p]) => calls[p].res.err = NoErr

\* the store committed, the invalidation failed or timed out, the write
\* returns success
C4_Witness ==
    \E p \in Procs :
        /\ StoreSucceeded(calls[p])
        /\ calls[p].inv \in {"error", "timeout"}
        /\ calls[p].res.err = NoErr

\* C5, in every state: a write has issued a cache call only after its store
\* operation succeeded, and a write whose store operation failed returns an
\* error having issued no cache call.
C5_StoreFirst ==
    \A p \in Procs :
        LET c == calls[p]
        IN  c.op \in Writes =>
              /\ c.cacheOps > 0 => c.storeOps > 0 /\ c.ans.err = NoErr
              /\ (c.pc = "done" /\ c.storeOps > 0 /\ c.ans.err # NoErr)
                    => c.res.err # NoErr /\ c.cacheOps = 0

\* C5, in every step: a step in which a write calls the store, or returns
\* an error, leaves the cache as it is.
C5_FailedWriteStep ==
    \A p \in Procs :
        ( /\ calls'[p].op \in Writes
          /\ \/ calls'[p].storeOps # calls[p].storeOps
             \/ calls'[p].pc = "done" /\ calls[p].pc # "done" /\ calls'[p].res.err # NoErr )
        => cache' = cache

\* C5: in Create, Update and Delete the store operation is issued and
\* completed before any cache operation; if it fails the call fails, no
\* cache operation is issued and the cache is unchanged.
C5_StoreBeforeCache == []C5_StoreFirst /\ [][C5_FailedWriteStep]_vars

\* the store operation of a write failed while the cache held entries: the
\* write returns the error and has issued no cache call
C5_Witness ==
    \E p \in Procs :
        /\ calls[p].op \in Writes /\ calls[p].pc = "done"
        /\ calls[p].storeOps > 0 /\ calls[p].ans.err # NoErr
        /\ calls[p].res.err # NoErr /\ calls[p].cacheOps = 0
        /\ DOMAIN cache # {}

\* the store answered the query of the call (the query did not fail)
StoreAnswered(c) == ~ErrorsIs(c.ans.err, "failed to execute query")

\* C6, in every step: when Delete(id) asks the store for an id that has no
\* row and the store answers, the call ends with an error that is
\* ErrNotFound through the wrapping, that DeleteUser translates to
\* ErrUserNotFound; the table and the cache are unchanged and no
\* invalidation is issued.
C6_DeleteAbsentStep ==
    \A p \in Procs :
        ( /\ calls[p].op = "Delete" /\ calls[p].pc = "check"
          /\ WhereID(rows, calls[p].id) = << >>
          /\ calls'[p].pc # "check"
          /\ StoreAnswered(calls'[p]) )
        => /\ calls'[p].pc = "done"
           /\ ErrorsIs(calls'[p].res.err, ErrNotFound)
           /\ DeleteUser(calls[p].id, calls'[p].res.err) = <<ErrUserNotFound>>
           /\ rows' = rows
           /\ cache' = cache
           /\ calls'[p].cacheOps = 0 /\ calls'[p].inv = "none"

\* C6: Delete(id) for an id that does not exist in the store returns
\* NotFound (ErrNotFound through the wrapping, ErrUserNotFound from the use
\* case), leaves the store unchanged and issues no cache invalidation.
C6_DeleteAbsent == [][C6_DeleteAbsentStep]_vars

\* a Delete of an id without a row has returned NotFound while the cache
\* held entries, and has issued no cache call
C6_Witness ==
    \E p \in Procs :
        /\ calls[p].op = "Delete" /\ calls[p].pc = "done" /\ calls[p].id # ""
        /\ WhereID(rows, calls[p].id) = << >>
        /\ calls[p].storeOps = 1 /\ StoreAnswered(calls[p])
        /\ ErrorsIs(calls[p].res.err, ErrNotFound)
        /\ calls[p].cacheOps = 0
        /\ DOMAIN cache # {}

\* a GetByID directly after a GetByID of the same id that missed the cache
\* and returned the store's record
ReadAfterMiss(c) ==
    /\ c.op = "GetByID" /\ c.pc = "done"
    /\ c.prev.op = "GetByID" /\ c.prev.id = c.id /\ c.prev.rd = "miss"

\* C7 as stated: GetByID(id) that misses the cache, followed by a second
\* GetByID(id), returns the identical record both times and the store is
\* called once across the two calls (not at all by the second), wherever
\* the background population of the first call runs.
C7_MissThenHitAlways ==
    \A p \in Procs :
        ReadAfterMiss(calls[p]) =>
            /\ calls[p].res = Result(calls[p].prev.val, NoErr)
            /\ calls[p].storeOps = 0

\* C7, amended: when the background population of the first call has
\* written the entry that the cache read of the second call finds, and the
\* cache answers that read, the second call returns the identical record
\* from the cache and does not call the store.
C7_MissThenHit ==
    \A p \in Procs :
        ( /\ ReadAfterMiss(calls[p])
          /\ calls[p].rdBy = calls[p].prev.n
          /\ calls[p].rd \notin {"error", "timeout"} )
        => /\ calls[p].rd = "hit"
           /\ calls[p].res = Result(calls[p].prev.val, NoErr)
           /\ calls[p].storeOps = 0

\* the second GetByID is served the entry the first one populated
C7_Witness ==
    \E p \in Procs :
        /\ ReadAfterMiss(calls[p])
        /\ calls[p].rdBy = calls[p].prev.n
        /\ calls[p].rd = "hit"
        /\ calls[p].res.val[1] = InitUser

\* the timed GetByID has its result after its cache read timed out
TimedOutRead ==
    /\ timed.call.pc = "done"
    /\ timed.call.rd = "timeout"

\* the timed GetByID returns the store's record within the caller's deadline
InTime ==
    /\ timed.call.res.err = NoErr
    /\ timed.call.res \in bqGetByID(rows, timed.call.id)
    /\ timed.now <= timed.deadline

\* C8 as stated: when the cache does not answer the cache read in time,
\* GetByID returns the store's result within the caller's deadline, for
\* every caller deadline.
C8_TimeoutFallthroughAlways == TimedOutRead => InTime

\* C8, amended: when the cache does not answer the cache read in time and
\* the caller's deadline is later than defaultTimeout plus the time the
\* store takes to answer, GetByID returns the store's result within the
\* caller's deadline: at defaultTimeout plus the store's time.
C8_TimeoutFallthrough ==
    (TimedOutRead /\ timed.deadline > defaultTimeout + timed.storeDelay)
    => /\ InTime
       /\ timed.now = defaultTimeout + timed.storeDelay

\* the cache hung, the store took a second, and the caller with a deadline
\* of five seconds has the store's record after four
C8_Witness ==
    /\ TimedOutRead /\ InTime
    /\ timed.backend = "hang"
    /\ timed.storeDelay = 1
    /\ timed.deadline = 5
    /\ timed.now = 4

\* C9, in every state: the context of a pending population is not done,
\* and a read that returns the store's result has its population pending.
C9_Pending ==
    /\ \A t \in pops : t.ctx \notin ctxDone
    /\ \A p \in Procs :
          ( /\ calls[p].op \in Reads /\ calls[p].pc = "done"
            /\ calls[p].storeOps = 1 /\ calls[p].ans.err = NoErr )
          => \E t \in pops : t.n = calls[p].n /\ t.key = KeyOf(calls[p])

\* C9, in every step: a step in which a population runs changes no call in
\* flight, no returned result and no row.
C9_PopulationStep ==
    (pops' # pops /\ pops' \subseteq pops)
    => calls' = calls /\ last' = last /\ rows' = rows

\* C9: the background population after a read miss is detached: the read
\* returns without waiting for it, it runs under a context of its own that
\* the end of the request does not cancel, and whatever its outcome it
\* changes the result of no request.
C9_Detached == []C9_Pending /\ [][C9_PopulationStep]_vars

\* the request has returned, its context is done, and the population it
\* spawned is still pending
C9_Witness ==
    \E t \in pops :
        /\ t.n \in ctxDone
        /\ \A p \in Procs : calls[p].n # t.n

\* C10: GetByID returns an error that is ErrNotFound only when the store
\* was asked in that call and answered NotFound.
C10_NotFoundFromStore ==
    \A p \in Procs :
        ( /\ calls[p].op = "GetByID" /\ calls[p].pc = "done"
          /\ ErrorsIs(calls[p].res.err, ErrNotFound) )
        => /\ calls[p].storeOps = 1
           /\ ErrorsIs(calls[p].ans.err, ErrNotFound)

\* the store reported NotFound in call c
StoreNotFound(c) == c.storeOps > 0 /\ ErrorsIs(c.ans.err, ErrNotFound)

\* the store failed in call c for another reason
StoreFailed(c) ==
    c.storeOps > 0 /\ c.ans.err # NoErr /\ ~ErrorsIs(c.ans.err, ErrNotFound)

\* C11: for every call, the repository and the use case above it report
\* NotFound exactly when the store reported NotFound in that call, and
\* report a failure that is neither NotFound nor Validation whenever the
\* store failed for another reason.
C11_KindPreserved ==
    \A p \in Procs :
        LET c == calls[p]
        IN  c.pc = "done" =>
              /\ RepoKind(c.res.err) = "NotFound" <=> StoreNotFound(c)
              /\ handleError(UseCaseErr(c)) = "NotFound" <=> StoreNotFound(c)
              /\ StoreFailed(c) =>
                    /\ RepoKind(c.res.err) = "Internal"
                    /\ handleError(UseCaseErr(c)) = "Internal"

\* what the same call returns when issued on the store directly, on the
\* table as it is: the answers of a read
DirectRead(c) == StoreAnswers(c, FALSE, TRUE)

\* the error of the same write issued on the store directly
DirectWriteErr(c) ==
    IF c.op # "Create" /\ ValidateID(WriteID(c)) # NoErr
    THEN ValidateID(WriteID(c))
    ELSE c.ans.err

\* C12, under SpecHealthy: every call on the cache-aside repository returns
\* the records, or an error of the kind, that the same call returns on the
\* store directly; in particular GetAll returns the page as the table
\* holds it.
C12_DropIn ==
    \A p \in Procs :
        LET c == calls[p]
        IN  c.pc = "done" =>
              IF c.op \in Reads
              THEN \E a \in DirectRead(c) :
                      /\ RepoKind(a.err) = RepoKind(c.res.err)
                      /\ c.res.err = NoErr => c.res = a
              ELSE RepoKind(c.res.err) = RepoKind(DirectWriteErr(c))

\* C13, under SpecHelpers: the key of an identifier differs from the key of
\* every normalised pagination, distinct identifiers have distinct keys and
\* distinct normalised paginations have distinct list keys.
C13_KeysDisjoint ==
    probe.pc = "keys" =>
        /\ \A i, j \in 1..2 : probe.key[i] # probe.listKey[j]
        /\ probe.id[1] # probe.id[2] => probe.key[1] # probe.key[2]
        /\ probe.once[1] # probe.once[2] => probe.listKey[1] # probe.listKey[2]

\* the cache key and the query of GetAll come from the normalised pair
FromNormalized(i) ==
    /\ probe.once[i] = ValidatePagination(probe.params[i])
    /\ probe.once[i].Page >= 1 /\ probe.once[i].PageSize >= 1
    /\ probe.listKey[i] = generateListKey(probe.once[i])
    /\ probe.query[i] = [pageSize |-> probe.once[i].PageSize,
                         offset |-> (probe.once[i].Page - 1) * probe.once[i].PageSize]
    /\ probe.params[i] # probe.once[i] =>
          /\ probe.listKey[i] # generateListKey(probe.params[i])
          /\ probe.query[i] # [pageSize |-> probe.params[i].PageSize,
                               offset |-> CalculateOffset(probe.params[i])]

\* two requests that normalise to the same pair use the same key and query
SamePair ==
    probe.once[1] = probe.once[2] =>
        probe.listKey[1] = probe.listKey[2] /\ probe.query[1] = probe.query[2]

\* C14 as stated, under SpecHelpers: in GetAll the cache key and the store
\* query are derived from the same normalised pair, no unnormalised value
\* reaches either, and the pagination is normalised exactly once per call.
C14_NormalizedOnce ==
    probe.pc = "query" =>
        /\ \A i \in 1..2 : FromNormalized(i)
        /\ SamePair
        /\ probe.normalized = 1

\* C14, amended: in GetAll the cache key and the store query are derived
\* from the same normalised pair and no unnormalised value reaches either;
\* the pagination is normalised by the cache layer before the key is
\* derived and, on a miss, a second time by the store adapter, where it
\* changes nothing.
C14_Normalized ==
    probe.pc = "query" =>
        /\ \A i \in 1..2 : FromNormalized(i)
        /\ SamePair
        /\ probe.normalized = 2
        /\ probe.twice = probe.once

\* two different requests, one of them unnormalised, that normalise to the
\* same pair have gone through GetAll to the store
C14_Witness ==
    /\ probe.pc = "query"
    /\ probe.params[1] # probe.params[2]
    /\ probe.params[1] # probe.once[1]
    /\ probe.once[1] = probe.once[2]
    /\ probe.listKey[1] = probe.listKey[2]

\* a pagination that is valid as it is
Valid(params) == params.Page >= 1 /\ params.PageSize >= 1

\* C15, under SpecHelpers: ValidatePagination is idempotent: normalising
\* twice gives the pair that normalising once gives, the result has
\* page >= 1 and page_size >= 1, and a valid pair is returned unchanged.
C15_Idempotent ==
    probe.pc = "query" =>
        \A i \in 1..2 :
            /\ probe.twice[i] = probe.once[i]
            /\ Valid(probe.once[i])
            /\ Valid(probe.params[i]) => probe.once[i] = probe.params[i]

\* an invalid pair and a valid pair other than the defaults have been
\* normalised twice
C15_Witness ==
    /\ probe.pc = "query"
    /\ probe.params[1] = [Page |-> -1, PageSize |-> 0]
    /\ probe.once[1] = [Page |-> 1, PageSize |-> 10]
    /\ probe.twice[1] = probe.once[1]
    /\ probe.params[2] = [Page |-> 2, PageSize |-> 2]
    /\ probe.once[2] = probe.params[2]

\* the rows written by the CreateUser calls of the behaviour (the row of
\* Init has created_at 0)
Created == { i \in 1..Len(rows) : rows[i].CreatedAt > 0 }

\* C16: every record written by CreateUser has a non-empty identifier, and
\* no two records written by distinct CreateUser calls share an identifier,
\* whether the identifier was generated or supplied by the caller.
C16_UniqueIDs ==
    /\ \A i \in Created : rows[i].ID # ""
    /\ \A i, j \in Created : i # j => rows[i].ID # rows[j].ID

\* the statement of an Update runs in this step of handler p
UpdateExec(p) ==
    calls[p].op = "Update" /\ calls[p].pc = "exec" /\ calls'[p].pc # "exec"

\* the existence check of an Update runs in this step of handler p
UpdateCheck(p) ==
    calls[p].op = "Update" /\ calls[p].pc = "check" /\ calls'[p].pc # "check"

\* C17, in every step: the statement of an Update keeps the number of rows
\* and every row's id and created_at, leaves the rows of other ids as they
\* are, and on success sets the name of the rows of its id; the existence
\* check changes no row, and when the id has no row and the store answers,
\* the Update ends there with NotFound.
C17_UpdateStep ==
    \A p \in Procs :
        /\ UpdateExec(p) =>
              /\ Len(rows') = Len(rows)
              /\ \A i \in 1..Len(rows) :
                    /\ rows'[i].ID = rows[i].ID
                    /\ rows'[i].CreatedAt = rows[i].CreatedAt
                    /\ rows[i].ID # calls[p].user.ID => rows'[i] = rows[i]
                    /\ (rows[i].ID = calls[p].user.ID /\ calls'[p].ans.err = NoErr)
                          => rows'[i].Name = calls[p].user.Name
        /\ UpdateCheck(p) =>
              /\ rows' = rows
              /\ (WhereID(rows, calls[p].user.ID) = << >> /\ StoreAnswered(calls'[p]))
                    => /\ calls'[p].pc = "done"
                       /\ ErrorsIs(calls'[p].res.err, ErrNotFound)
                       /\ UpdateUser(calls[p].user, calls'[p].res.err) = <<ErrUserNotFound>>

\* C17: Update changes only the name (and email, updated_at) of the record
\* of the given id: identifier and created_at stay as set at creation, no
\* other record changes; Update of an id absent from the store changes
\* nothing and returns NotFound.
C17_UpdateFrame == [][C17_UpdateStep]_vars

\* a user was created, then the record of Init was updated: it has the new
\* name and its created_at, and the created record is as it was written
C17_Witness ==
    \E p \in Procs :
        /\ calls[p].op = "Update" /\ calls[p].pc = "done" /\ calls[p].res.err = NoErr
        /\ calls[p].pre = {"a"}
        /\ Len(rows) = 2
        /\ rows[1] = NewUser("u1", "b", 0)
        /\ rows[2] = NewUser(NewUUID(1), "a", 1)

\* a GetByID, Update or Delete called with the empty identifier
EmptyID(c) ==
    \/ c.op \in {"GetByID", "Delete"} /\ c.id = ""
    \/ c.op = "Update" /\ c.user.ID = ""

\* C18, in every state: a call with the empty identifier has made no cache
\* call and no store call; it ends with an error, for which the use case
\* returns kind Validation.
C18_NoCall ==
    \A p \in Procs :
        EmptyID(calls[p]) =>
            /\ calls[p].pc = "done"
            /\ calls[p].res.err # NoErr
            /\ calls[p].storeOps = 0 /\ calls[p].cacheOps = 0
            /\ handleError(UseCaseErr(calls[p])) = "Validation"

\* C18, in every step: the step in which a call with the empty identifier
\* gets its result is its first, and leaves table, cache and populations
\* as they are.
C18_EmptyIDStep ==
    \A p \in Procs :
        (EmptyID(calls'[p]) /\ calls[p].pc # "done")
        => /\ calls[p].op = "idle"
           /\ rows' = rows /\ cache' = cache /\ pops' = pops

\* C18: GetByID, Update and Delete with an empty identifier return an error
\* before any cache or store call, cache and store unchanged; through the
\* use case the error is of kind Validation, never NotFound.
C18_EmptyID == []C18_NoCall /\ [][C18_EmptyIDStep]_vars

\* an Update with the empty identifier has its error while the cache holds
\* entries and the table a row
C18_Witness ==
    \E p \in Procs :
        /\ calls[p].op = "Update" /\ calls[p].user.ID = "" /\ calls[p].pc = "done"
        /\ ErrorsIs(UseCaseErr(calls[p]), ErrValidation)
        /\ DOMAIN cache # {} /\ rows # << >>

\* the entry of id is the store's current record of id
Fresh(id) ==
    \E r \in bqGetByID(rows, id) :
        r.err = NoErr /\ cache[generateKey(id)] = MarshalUser(r.val[1])

\* C19: with a healthy cache, once a GetByID that missed, a concurrent Update
\* or Delete of the same id and the background population have all finished,
\* the entry of id that the population wrote is absent or equal to the
\* store's current record.
C19_NoStaleEntry ==
    Quiet =>
        \A id \in IDs \ {""} :
            (RedisHas(cache, generateKey(id)) /\ writer[generateKey(id)] # 0)
            => Fresh(id)

\* the cache holds under k an entry that differs from what the store now
\* answers: the record of the id, or the page of the pagination
Stale(k) ==
    /\ RedisHas(cache, k)
    /\ \/ \E id \in IDs \ {""} : k = generateKey(id) /\ ~Fresh(id)
       \/ \E p \in PaginationInputs :
             /\ k = generateListKey(ValidatePagination(p))
             /\ cache[k] # MarshalList(bqGetAll(rows, p).val)

\* C20: for every TTL the configuration can produce, an entry that differs
\* from the store's current state is eventually deleted or expires, with no
\* further write to the record.
C20_TTLBounded == \A k \in CacheKeys : Stale(k) ~> ~Stale(k)

\* executeWithTimeout has not outlasted its bound: while the caller waits,
\* and when it has returned, neither defaultTimeout nor the time at which
\* the caller's context is done has been passed
C21_Bounded ==
    /\ exec.pc = "select" =>
           exec.now <= defaultTimeout /\ exec.now <= exec.deadline
    /\ exec.pc = "returned" =>
           exec.returnedAt <= defaultTimeout /\ exec.returnedAt <= exec.deadline

\* a worker whose operation has returned can deliver its result
C21_WorkerDelivers == exec.worker = "send" => ENABLED WorkerSend

\* C21: every cache operation run through executeWithTimeout returns to its
\* caller within defaultTimeout or as soon as the caller's context is done,
\* whichever is first, even when the backend never answers; and the worker
\* goroutine is never blocked on errChan once its operation has returned.
C21_BoundedReturn == C21_Bounded /\ C21_WorkerDelivers

\* the caller has returned the timeout error after defaultTimeout, and the
\* worker, whose operation returned later, has left its result in errChan
\* and ended
C21_Witness ==
    /\ exec.pc = "returned" /\ exec.returnedAt = defaultTimeout
    /\ ErrorsIs(exec.res, ErrCtx)
    /\ exec.worker = "exited" /\ Len(exec.errChan) = 1

\* the keys whose entry a step creates or changes
Written == { k \in DOMAIN cache' : k \notin DOMAIN cache \/ cache'[k] # cache[k] }

\* the payload cacheSet stores for the answer ans of the store to a read
PayloadOf(op, ans) ==
    IF op = "GetByID" THEN MarshalUser(ans.val[1]) ELSE MarshalList(ans.val)

\* C22, the Set: a step that creates or changes an entry is the cacheSet of
\* one pending population, under its key and with its payload, and no
\* handler moves in it: no step of a Create, Update or Delete, and no cache
\* hit, writes an entry.
C22_SetStep ==
    Written # {} =>
        /\ calls' = calls
        /\ \E t \in pops :
              /\ pops' = pops \ {t}
              /\ Written = {t.key}
              /\ cache'[t.key] = t.payload

\* a step that makes a population pending is the store read of a GetByID or
\* GetAll whose cache read had one of the outcomes; the store answered
\* without error, and the population carries the key that was read and the
\* encoding of the value the store answered, which is the value the call
\* returns
SpawnStep(outcomes) ==
    \A t \in pops' \ pops :
        \E p \in Procs :
            /\ calls[p].op \in Reads /\ calls[p].pc = "store"
            /\ calls[p].rd \in outcomes
            /\ t.n = calls[p].n /\ t.key = KeyOf(calls[p])
            /\ \E ans \in StoreAnswers(calls[p], FALSE, TRUE) :
                  /\ ans.err = NoErr
                  /\ t.payload = PayloadOf(calls[p].op, ans)
                  /\ calls'[p].res = Result(ans.val, NoErr)

\* C22, the population: it is made pending by the store read of a read whose
\* cache read did not return a value: a miss, a payload that does not
\* decode, an error of Redis or a timeout.
C22_SpawnStep == SpawnStep({"miss", "malformed", "error", "timeout"})

\* C22, the writes and the failed reads: a step of a Create, Update or
\* Delete, and a step of a read that ends with an error, make no population
\* pending.
C22_NoSpawnStep ==
    \A p \in Procs :
        (calls'[p] # calls[p] /\ (calls'[p].op \in Writes \/ calls'[p].res.err # NoErr))
        => pops' \subseteq pops

\* C22: the cache is Set only on the read path, after a cache read that did
\* not hit and a successful store read of the same call, with the value the
\* store returned and under the key that was read; Create, Update and
\* Delete only delete keys, a hit writes nothing, a failed store read
\* populates nothing.
C22_SetOnlyOnRead ==
    [][C22_SetStep /\ C22_SpawnStep /\ C22_NoSpawnStep]_vars

\* C22 as stated: the cache is Set only after a cache miss followed by a
\* successful store read in the same call, under the key that missed.
C22_SetOnlyAfterMiss ==
    [][C22_SetStep /\ SpawnStep({"miss"}) /\ C22_NoSpawnStep]_vars

\* a population has written the record of u1 (the store's answer to a
\* GetByID that missed), and a write has since run its invalidation
C22_Witness ==
    /\ RedisHas(cache, generateKey("u1")) /\ writer[generateKey("u1")] # 0
    /\ cache[generateKey("u1")] = MarshalUser(InitUser)
    /\ \E p \in Procs : calls[p].op \in Writes /\ calls[p].inv # "none"

\* the pair of a request whose page and page_size are numbers >= 1
CallerPair == [Page |-> probe.request.page.n, PageSize |-> probe.request.pageSize.n]

ValidRequest ==
    /\ probe.request.page.kind = "int" /\ probe.request.page.n >= 1
    /\ probe.request.pageSize.kind = "int" /\ probe.request.pageSize.n >= 1

\* C23: for every valid request (page >= 1, page_size >= 1) through the
\* GET /users handler and GetAllUsers, the pair behind the cache key and the
\* store query is the caller's pair, and is the pagination echoed in the
\* response.
C23_CallerPair ==
    (probe.pc = "query" /\ ValidRequest) =>
        /\ probe.echoed = CallerPair
        /\ probe.listKey[1] = generateListKey(CallerPair)
        /\ probe.query[1] = [pageSize |-> CallerPair.PageSize,
                             offset |-> CalculateOffset(CallerPair)]

====
